---- MODULE Spec2Model ----
(***************************************************************************)
(* A model of todo_app.py: the Database class (the users table with its    *)
(* salted PBKDF2 password records, the todos table, its schema and the     *)
(* queries over it) and the TodoApp frame that works on it.                *)
(* Text that the code orders or slices (dates, times, timestamps,          *)
(* passwords, password records) is a sequence of character codes; text    *)
(* that is only stored and compared for equality is a string.              *)
(***************************************************************************)
EXTENDS Integers, Sequences, FiniteSets, TLC

VARIABLES users, userSeq, registered, todos, todoSeq, clock, last, schema, view

vars == <<users, userSeq, registered, todos, todoSeq, clock, last, schema, view>>

credVars == <<users, userSeq, registered>>

todoVars == <<todos, todoSeq>>

\* The columns of the todos table, and the TodoApp frame on screen.
appVars == <<schema, view>>

(***************************************************************************)
(* Bounds of the model.                                                    *)
(***************************************************************************)
MaxTodos == 2

MaxDays == 2

MaxUsers == 2

MaxSalt == 2

(***************************************************************************)
(* Text values.                                                            *)
(***************************************************************************)
\* SQL NULL / Python None for a text value: no character has code -1.
NULL == <<-1>>

Min(a, b) == IF a <= b THEN a ELSE b

\* Python's and SQLite's (BINARY collation) order on text: code by code,
\* a proper prefix first.
StrLt(a, b) ==
    \/ Len(a) < Len(b) /\ \A j \in 1..Len(a) : a[j] = b[j]
    \/ \E i \in 1..Min(Len(a), Len(b)) :
          a[i] < b[i] /\ \A j \in 1..(i - 1) : a[j] = b[j]

\* SQL's "a < b" in a WHERE clause: not true when either side is NULL.
SqlLt(a, b) == a # NULL /\ b # NULL /\ StrLt(a, b)

\* A mutant of SqlOrderLt: NULL is put last.
SqlOrderLtNullsLast(a, b) ==
    \/ a # NULL /\ b = NULL
    \/ a # NULL /\ b # NULL /\ StrLt(a, b)

\* ORDER BY ... ASC on a nullable text column: SQLite puts NULL first.
SqlOrderLt(a, b) ==
    \/ a = NULL /\ b # NULL
    \/ a # NULL /\ b # NULL /\ StrLt(a, b)

TwoDigits(n) == <<48 + (n \div 10), 48 + (n % 10)>>

\* strftime("%Y-%m-%d") for the days of January 2024.
FmtDate(day) == <<50, 48, 50, 52, 45, 48, 49, 45>> \o TwoDigits(day)

\* strftime("%H:%M") of a second of the day.
FmtTime(sec) == TwoDigits(sec \div 3600) \o <<58>> \o TwoDigits((sec \div 60) % 60)

\* strftime("%Y-%m-%d %H:%M:%S").
FmtStamp(c) ==
    FmtDate(c.day) \o <<32>> \o FmtTime(c.sec) \o <<58>> \o TwoDigits(c.sec % 60)

(***************************************************************************)
(* The wall clock: sampled instants of consecutive days.                   *)
(***************************************************************************)
Days == 9..(9 + MaxDays - 1)

ClockSecs == <<0, 86399>>

Instants == {[day |-> d, sec |-> ClockSecs[i]] : d \in Days, i \in 1..Len(ClockSecs)}

FirstInstant == [day |-> 9, sec |-> ClockSecs[1]]

\* The next sampled instant after c (c itself at the end of the window).
NextInstant(c) ==
    IF \E i \in 1..(Len(ClockSecs) - 1) : ClockSecs[i] = c.sec
    THEN [c EXCEPT !.sec = ClockSecs[(CHOOSE i \in 1..Len(ClockSecs) : ClockSecs[i] = c.sec) + 1]]
    ELSE IF c.day + 1 \in Days THEN [day |-> c.day + 1, sec |-> ClockSecs[1]] ELSE c

(***************************************************************************)
(* The todos table and its statements.                                     *)
(***************************************************************************)
\* A keyword argument of a call: its value when supplied, the parameter's
\* default when omitted.
Arg(args, name, default) == IF name \in DOMAIN args THEN args[name] ELSE default

\* The rows a "WHERE id = ?" matches.
Matched(id) == {r \in todos : r.id = id}

\* "return self.cursor.rowcount > 0", with a mutant that also reports success
\* when no row matched.
RowcountNotNegative(rowcount) == rowcount >= 0

RowcountPositive(rowcount) == rowcount > 0

\* A mutant of InsertedRow: the INSERT leaves priority to the schema's default.
InsertedRowNoPriority(id, args) ==
    [id             |-> id,
     user_id        |-> args.user_id,
     date           |-> args.date,
     title          |-> args.title,
     description    |-> Arg(args, "description", ""),
     status         |-> "pending",
     due_time       |-> Arg(args, "due_time", NULL),
     completed_date |-> NULL,
     priority       |-> "medium"]

\* INSERT INTO todos (user_id, date, title, description, due_time, priority):
\* id is AUTOINCREMENT, status and completed_date take the schema's defaults.
InsertedRow(id, args) ==
    [id             |-> id,
     user_id        |-> args.user_id,
     date           |-> args.date,
     title          |-> args.title,
     description    |-> Arg(args, "description", ""),
     status         |-> "pending",
     due_time       |-> Arg(args, "due_time", NULL),
     completed_date |-> NULL,
     priority       |-> Arg(args, "priority", "medium")]

\* A mutant of UpdatedRow: due_time is set whether or not it is None.
UpdatedRowSetsDueTime(r, args) ==
    [r EXCEPT !.title       = args.title,
              !.description = args.description,
              !.due_time    = Arg(args, "due_time", NULL),
              !.priority    = IF "priority" \in DOMAIN args
                              THEN args.priority ELSE @]

\* UPDATE todos SET title = ?, description = ? [, due_time = ?] [, priority = ?]
UpdatedRow(r, args) ==
    [r EXCEPT !.title       = args.title,
              !.description = args.description,
              !.due_time    = IF Arg(args, "due_time", NULL) # NULL
                              THEN args.due_time ELSE @,
              !.priority    = IF "priority" \in DOMAIN args
                              THEN args.priority ELSE @]

\* A mutant of DoneRow: completing a todo also clears its due time.
DoneRowClearsDueTime(r, stamp) ==
    [r EXCEPT !.status = "completed", !.completed_date = stamp, !.due_time = NULL]

\* A mutant of DoneRow: a todo that is already completed keeps its stamp.
DoneRowKeepsFirstStamp(r, stamp) ==
    IF r.status = "completed" THEN r
    ELSE [r EXCEPT !.status = "completed", !.completed_date = stamp]

\* UPDATE todos SET status = 'completed', completed_date = ?
DoneRow(r, stamp) == [r EXCEPT !.status = "completed", !.completed_date = stamp]

\* A mutant of PendingRow: the completion stamp is left in place.
PendingRowKeepsStamp(r) == [r EXCEPT !.status = "pending"]

\* UPDATE todos SET status = 'pending', completed_date = NULL
PendingRow(r) == [r EXCEPT !.status = "pending", !.completed_date = NULL]

\* A mutant of AutoIncrement: the rowid of a table without AUTOINCREMENT, one
\* more than the largest id stored.
MaxRowidPlusOne(seq, rows) ==
    IF rows = {} THEN 1 ELSE (CHOOSE m \in {r.id : r \in rows} : \A r \in rows : r.id <= m) + 1

\* id INTEGER PRIMARY KEY AUTOINCREMENT: one more than the largest id the
\* table ever held, which sqlite_sequence keeps (seq).
AutoIncrement(seq, rows) == seq + 1

AddTodo(args) ==
    /\ todoSeq < MaxTodos
    /\ todos' = todos \cup {InsertedRow(AutoIncrement(todoSeq, todos), args)}
    /\ todoSeq' = AutoIncrement(todoSeq, todos)
    /\ last' = [op |-> "add_todo", args |-> args, ret |-> AutoIncrement(todoSeq, todos)]
    /\ UNCHANGED <<credVars, clock, appVars>>

UpdateTodo(id, args) ==
    /\ todos' = (todos \ Matched(id)) \cup {UpdatedRow(r, args) : r \in Matched(id)}
    /\ last' = [op |-> "update_todo", id |-> id, args |-> args,
                ret |-> RowcountPositive(Cardinality(Matched(id)))]
    /\ UNCHANGED <<credVars, todoSeq, clock, appVars>>

DeleteTodo(id) ==
    /\ todos' = todos \ Matched(id)
    /\ last' = [op |-> "delete_todo", id |-> id, ret |-> RowcountPositive(Cardinality(Matched(id)))]
    /\ UNCHANGED <<credVars, todoSeq, clock, appVars>>

MarkTodoAsDone(id) ==
    /\ todos' = (todos \ Matched(id)) \cup {DoneRow(r, FmtStamp(clock)) : r \in Matched(id)}
    /\ last' = [op |-> "mark_todo_as_done", id |-> id, old |-> Matched(id),
                ret |-> RowcountPositive(Cardinality(Matched(id)))]
    /\ UNCHANGED <<credVars, todoSeq, clock, appVars>>

MarkTodoAsPending(id) ==
    /\ todos' = (todos \ Matched(id)) \cup {PendingRow(r) : r \in Matched(id)}
    /\ last' = [op |-> "mark_todo_as_pending", id |-> id, old |-> Matched(id),
                ret |-> RowcountPositive(Cardinality(Matched(id)))]
    /\ UNCHANGED <<credVars, todoSeq, clock, appVars>>

\* Time passes between two calls.
Tick ==
    /\ NextInstant(clock) # clock
    /\ clock' = NextInstant(clock)
    /\ UNCHANGED <<credVars, todoVars, last, appVars>>

(***************************************************************************)
(* The queries.                                                            *)
(***************************************************************************)
\* The columns the SELECTs return.
Selected(r) ==
    [id |-> r.id, date |-> r.date, title |-> r.title, description |-> r.description,
     status |-> r.status, due_time |-> r.due_time, priority |-> r.priority]

\* CASE priority WHEN 'high' THEN 1 WHEN 'medium' THEN 2 WHEN 'low' THEN 3 END:
\* NULL, which sorts before every number, for any other text.
PriorityRank(p) ==
    CASE p = "high" -> 1 [] p = "medium" -> 2 [] p = "low" -> 3 [] OTHER -> 0

\* The orders in which an ORDER BY may return the rows S, before being the
\* pairs <<a, b>> of rows with a strictly before b: every arrangement of S
\* that puts no row after one it is before.  Rows equal under the ORDER BY
\* come in any order.
Orderings(S, before) ==
    {s \in [1..Cardinality(S) -> S] :
        \A i, j \in 1..Cardinality(S) :
            i < j => s[i] # s[j] /\ <<s[j], s[i]>> \notin before}

\* A mutant of ByDateBefore: ties are broken by id ascending.
ByDateBeforeIdAsc(a, b) ==
    \/ PriorityRank(a.priority) < PriorityRank(b.priority)
    \/ PriorityRank(a.priority) = PriorityRank(b.priority) /\ a.id < b.id

\* ORDER BY CASE priority ... END, id DESC
ByDateBefore(a, b) ==
    \/ PriorityRank(a.priority) < PriorityRank(b.priority)
    \/ PriorityRank(a.priority) = PriorityRank(b.priority) /\ a.id > b.id

\* A mutant of SelectByDate: the WHERE clause lacks user_id = ?.
SelectByDateAnyUser(tbl, user_id, date) ==
    LET rows == {Selected(r) : r \in {t \in tbl : t.date = date}}
    IN  CHOOSE s \in Orderings(rows, {p \in rows \X rows : ByDateBefore(p[1], p[2])}) : TRUE

\* The SELECT of get_todos_by_date on the table tbl: ids are unique, so the
\* order is total and the result one.
SelectByDate(tbl, user_id, date) ==
    LET rows == {Selected(r) : r \in {t \in tbl : t.user_id = user_id /\ t.date = date}}
    IN  CHOOSE s \in Orderings(rows, {p \in rows \X rows : ByDateBefore(p[1], p[2])}) : TRUE

GetTodosByDate(user_id, date) == SelectByDate(todos, user_id, date)

\* ORDER BY CASE priority ... END, date ASC, due_time ASC
ByPriorityBefore(a, b) ==
    \/ PriorityRank(a.priority) < PriorityRank(b.priority)
    \/ /\ PriorityRank(a.priority) = PriorityRank(b.priority)
       /\ \/ SqlOrderLt(a.date, b.date)
          \/ a.date = b.date /\ SqlOrderLt(a.due_time, b.due_time)

\* A mutant of GetTodosByPriority: the WHERE clause lacks status = 'pending'.
GetTodosByPriorityAnyStatus(user_id) ==
    LET rows == {Selected(r) : r \in {t \in todos : t.user_id = user_id}}
    IN  Orderings(rows, {p \in rows \X rows : ByPriorityBefore(p[1], p[2])})

\* get_todos_by_priority: the results the query may return.
GetTodosByPriority(user_id) ==
    LET rows == {Selected(r) : r \in {t \in todos : t.user_id = user_id /\ t.status = "pending"}}
    IN  Orderings(rows, {p \in rows \X rows : ByPriorityBefore(p[1], p[2])})

\* The instants a second datetime.now() of the same call can show: the same
\* second as the first, or the second after it.
SoonAfter(c) ==
    {c} \cup {n \in Instants : \/ n.day = c.day /\ n.sec = c.sec + 1
                               \/ n.day = c.day + 1 /\ c.sec = 86399 /\ n.sec = 0}

\* A mutant of OverdueWhere: completed todos are counted too.
OverdueWhereAnyStatus(r, user_id, current_date, current_time) ==
    /\ r.user_id = user_id
    /\ \/ SqlLt(r.date, current_date)
       \/ r.date = current_date /\ SqlLt(r.due_time, current_time) /\ r.due_time # NULL

\* The WHERE clause of the overdue count.
OverdueWhere(r, user_id, current_date, current_time) ==
    /\ r.user_id = user_id
    /\ r.status = "pending"
    /\ \/ SqlLt(r.date, current_date)
       \/ r.date = current_date /\ SqlLt(r.due_time, current_time) /\ r.due_time # NULL

\* get_todo_stats: current_date and current_time come from two calls of
\* datetime.now().
GetTodoStats(user_id) ==
    \E c2 \in SoonAfter(clock) :
        /\ clock' = c2
        /\ last' = [op |-> "get_todo_stats", user_id |-> user_id, t0 |-> clock, t1 |-> c2,
                    ret |-> [completed |-> Cardinality({r \in todos : r.user_id = user_id /\ r.status = "completed"}),
                             pending   |-> Cardinality({r \in todos : r.user_id = user_id /\ r.status = "pending"}),
                             overdue   |-> Cardinality({r \in todos :
                                              OverdueWhere(r, user_id, FmtDate(clock.day), FmtTime(c2.sec))})]]
        /\ UNCHANGED <<credVars, todoVars, appVars>>

(***************************************************************************)
(* A new database, and the values the callers pass.                        *)
(***************************************************************************)
\* The columns the first version of the todos table had, and the ones added
\* since, in the order __init__ adds them.
BaseColumns == {"id", "user_id", "date", "title", "description"}

NewerColumns == <<"status", "due_time", "completed_date", "priority">>

AllColumns == BaseColumns \cup {NewerColumns[i] : i \in 1..Len(NewerColumns)}

\* Application.show_login: the login frame is on screen, no TodoApp exists.
LoginView == [frame |-> "LoginFrame"]

Init ==
    /\ users = {}
    /\ userSeq = 0
    /\ registered = {}
    /\ todos = {}
    /\ todoSeq = 0
    /\ clock = FirstInstant
    /\ last = [op |-> "init"]
    /\ schema = AllColumns
    /\ view = LoginView

UserIds == 1..MaxUsers

Dates == {FmtDate(d) : d \in Days}

Priorities == {"high", "medium", "low"}

\* "00:00" and "12:00"
Midnight == <<48, 48, 58, 48, 48>>

Noon == <<49, 50, 58, 48, 48>>

\* Ids of rows that exist, existed, or never will.
TodoIds == 1..(MaxTodos + 1)

\* The calls that address a todo by its id.
IdOps == {"update_todo", "delete_todo", "mark_todo_as_done", "mark_todo_as_pending"}

\* A step that is a call: every call leaves its record in last.
IsCall == last' # last

(***************************************************************************)
(* Spec: the five statements that write the todos table.  Each user adds   *)
(* plain todos, user 1 also one with every argument supplied.              *)
(***************************************************************************)
AddArgs ==
    [user_id : UserIds, date : {FmtDate(9)}, title : {"Buy milk"}]
    \cup {[user_id |-> 1, date |-> FmtDate(9), title |-> "Buy milk",
           description |-> "2 litres", due_time |-> Noon, priority |-> "high"]}

UpdateArgs == {[title |-> "Call bank", description |-> "at noon", priority |-> "low"]}

Next ==
    \/ \E args \in AddArgs : AddTodo(args)
    \/ \E id \in TodoIds, args \in UpdateArgs : UpdateTodo(id, args)
    \/ \E id \in TodoIds : DeleteTodo(id)
    \/ \E id \in TodoIds : MarkTodoAsDone(id)
    \/ \E id \in TodoIds : MarkTodoAsPending(id)

Spec == Init /\ [][Next]_vars

\* C1: through every sequence of add_todo, update_todo, delete_todo,
\* mark_todo_as_done and mark_todo_as_pending, each stored todo has a
\* completed_date exactly when its status is 'completed'.
C1_CompletedDateIffCompleted ==
    \A r \in todos : (r.completed_date # NULL) <=> (r.status = "completed")

\* A todo was set back to pending while another one is completed, stamped.
C1_Witness ==
    /\ last.op = "mark_todo_as_pending" /\ last.ret
    /\ \E r \in last.old : r.status = "completed"
    /\ \E r \in todos : r.status = "completed" /\ r.completed_date # NULL
    /\ \E r \in todos : r.status = "pending" /\ r.completed_date = NULL

\* C7: update_todo, delete_todo, mark_todo_as_done and mark_todo_as_pending
\* on an id that no stored todo has return False and change neither table.
C7_MissingIdChangesNothing ==
    [][(IsCall /\ last'.op \in IdOps /\ Matched(last'.id) = {})
          => (last'.ret = FALSE /\ UNCHANGED <<todoVars, credVars>>)]_vars

\* An update of a todo that was deleted earlier failed, with todos stored.
C7_Witness ==
    /\ last.op = "update_todo" /\ last.ret = FALSE
    /\ last.id <= todoSeq
    /\ todos # {}

\* C10: mark_todo_as_done(id) followed by mark_todo_as_pending(id) on an
\* existing todo leaves it pending with completed_date NULL and every other
\* field as it was before the two calls.
C10_DoneThenPendingRestores ==
    [][(/\ last.op = "mark_todo_as_done" /\ last.ret
        /\ IsCall /\ last'.op = "mark_todo_as_pending" /\ last'.id = last.id)
          => /\ last'.ret = TRUE
             /\ {r \in todos' : r.id = last.id}
                   = {[r EXCEPT !.status = "pending", !.completed_date = NULL] : r \in last.old}
             /\ {r \in todos' : r.id # last.id} = {r \in todos : r.id # last.id}]_vars

\* A todo with a due time that was completed is pending again.
C10_Witness ==
    /\ last.op = "mark_todo_as_pending" /\ last.ret
    /\ \E r \in last.old : r.status = "completed" /\ r.due_time = Noon
    /\ \E r \in todos : r.id = last.id /\ r.status = "pending" /\ r.due_time = Noon

(***************************************************************************)
(* SpecUpdate: update_todo with due_time and priority each None or         *)
(* supplied, on pending and completed todos of two users and dates.        *)
(***************************************************************************)
EditAddArgs ==
    {[user_id |-> 1, date |-> FmtDate(9), title |-> "Buy milk"],
     [user_id |-> 2, date |-> FmtDate(10), title |-> "Buy milk",
      description |-> "2 litres", due_time |-> Noon, priority |-> "high"]}

EditUpdateArgs ==
    LET required == [title : {"Call bank"}, description : {"at noon"}]
        due  == {<<>>} \cup [due_time : {Midnight}]
        prio == {<<>>} \cup [priority : {"low"}]
    IN  {r @@ t @@ p : r \in required, t \in due, p \in prio}

NextUpdate ==
    \/ \E args \in EditAddArgs : AddTodo(args)
    \/ \E id \in TodoIds, args \in EditUpdateArgs : UpdateTodo(id, args)
    \/ \E id \in TodoIds : MarkTodoAsDone(id)

SpecUpdate == Init /\ [][NextUpdate]_vars

\* C8: update_todo on an existing todo sets title and description, sets
\* due_time and priority only when they are not None, and leaves the todo's
\* id, user_id, date, status and completed_date, and every other todo, alone.
C8_UpdateFrame ==
    [][(IsCall /\ last'.op = "update_todo" /\ Matched(last'.id) # {})
          => /\ last'.ret = TRUE
             /\ {r \in todos' : r.id # last'.id} = {r \in todos : r.id # last'.id}
             /\ Cardinality(todos') = Cardinality(todos)
             /\ \A r \in Matched(last'.id) : \E n \in todos' :
                   /\ n.id = r.id /\ n.user_id = r.user_id /\ n.date = r.date
                   /\ n.status = r.status /\ n.completed_date = r.completed_date
                   /\ n.title = last'.args.title
                   /\ n.description = last'.args.description
                   /\ n.due_time = IF "due_time" \in DOMAIN last'.args /\ last'.args.due_time # NULL
                                   THEN last'.args.due_time ELSE r.due_time
                   /\ n.priority = IF "priority" \in DOMAIN last'.args
                                   THEN last'.args.priority ELSE r.priority
             /\ UNCHANGED <<todoSeq, credVars>>]_vars

\* A completed todo with a due time and priority 'high' was updated with
\* neither supplied, and kept both.
C8_Witness ==
    /\ last.op = "update_todo" /\ last.ret
    /\ DOMAIN last.args = {"title", "description"}
    /\ \E r \in todos : /\ r.id = last.id /\ r.title = last.args.title
                        /\ r.status = "completed" /\ r.due_time = Noon
                        /\ r.priority = "high"

(***************************************************************************)
(* SpecAdd: add_todo for every user and date with the optional arguments   *)
(* all omitted or all supplied, and for user 1 with each supplied alone.   *)
(***************************************************************************)
RoundTripAddArgs ==
    LET required == [user_id : UserIds, date : Dates, title : {"Buy milk"}]
        first == [user_id |-> 1, date |-> FmtDate(9), title |-> "Call bank"]
        all == [description |-> "2 litres", due_time |-> Noon, priority |-> "high"]
    IN  required
        \cup {r @@ all : r \in required}
        \cup {first @@ [description |-> "2 litres"], first @@ [due_time |-> Noon],
              first @@ [priority |-> "low"]}

NextAdd ==
    \/ \E args \in RoundTripAddArgs : AddTodo(args)
    \/ \E id \in TodoIds : DeleteTodo(id)

SpecAdd == Init /\ [][NextAdd]_vars

\* C9: right after id = add_todo(...), get_todos_by_date(user_id, date) holds a
\* row with that id, the date, title, description, due_time and priority
\* supplied (description '', due_time NULL and priority 'medium' when
\* omitted) and status 'pending'.
C9_AddThenListRoundTrip ==
    last.op = "add_todo" =>
        LET a == last.args
            rows == GetTodosByDate(a.user_id, a.date)
        IN  \E i \in 1..Len(rows) :
                /\ rows[i].id = last.ret
                /\ rows[i].date = a.date
                /\ rows[i].title = a.title
                /\ rows[i].description = (IF "description" \in DOMAIN a THEN a.description ELSE "")
                /\ rows[i].due_time = (IF "due_time" \in DOMAIN a THEN a.due_time ELSE NULL)
                /\ rows[i].priority = (IF "priority" \in DOMAIN a THEN a.priority ELSE "medium")
                /\ rows[i].status = "pending"

\* A second todo was added for a user and date with priority 'high' supplied.
C9_Witness ==
    /\ last.op = "add_todo" /\ last.ret = 2
    /\ "priority" \in DOMAIN last.args /\ "description" \notin DOMAIN last.args
    /\ Len(GetTodosByDate(last.args.user_id, last.args.date)) = 2

\* C17: add_todo returns an identifier greater than every identifier returned
\* before, whatever was deleted in between, the todo with the highest id
\* included.  todoSeq holds the largest identifier returned so far: an add
\* sets it to the identifier it returns, nothing else changes it.
C17_FreshIdentifier ==
    [][IF IsCall /\ last'.op = "add_todo"
       THEN /\ last'.ret > todoSeq
            /\ \A r \in todos : last'.ret > r.id
            /\ last.op = "add_todo" => last'.ret > last.ret
            /\ todoSeq' = last'.ret
       ELSE todoSeq' = todoSeq]_vars

\* The only todo, the one with the highest id, was deleted, and the next
\* add_todo returned 2.
C17_Witness ==
    /\ last.op = "add_todo" /\ last.ret = 2
    /\ todos # {} /\ \A r \in todos : r.id = 2

(***************************************************************************)
(* SpecByDate: todos of every priority for each user and date.             *)
(***************************************************************************)
ByDateAddArgs ==
    [user_id : UserIds, date : Dates, title : {"Buy milk"}, priority : Priorities]

NextByDate ==
    \/ \E args \in ByDateAddArgs : AddTodo(args)
    \/ \E id \in TodoIds : DeleteTodo(id)

SpecByDate == Init /\ [][NextByDate]_vars

\* The priority rank the specification gives: high=1, medium=2, low=3.
RankOf(p) == IF p = "high" THEN 1 ELSE IF p = "medium" THEN 2 ELSE 3

\* C2: get_todos_by_date(u, d) returns exactly the stored todos of user u and
\* date d, by priority rank ascending and, within a priority, id descending.
C2_ListByDate ==
    \A u \in UserIds, d \in Dates :
        LET rows == GetTodosByDate(u, d)
            stored == {r \in todos : r.user_id = u /\ r.date = d}
        IN  /\ Len(rows) = Cardinality(stored)
            /\ \A r \in stored : \E i \in 1..Len(rows) :
                  /\ rows[i].id = r.id /\ rows[i].date = r.date /\ rows[i].title = r.title
                  /\ rows[i].description = r.description /\ rows[i].status = r.status
                  /\ rows[i].due_time = r.due_time /\ rows[i].priority = r.priority
            /\ \A i, j \in 1..Len(rows) :
                  i < j => \/ RankOf(rows[i].priority) < RankOf(rows[j].priority)
                           \/ /\ rows[i].priority = rows[j].priority
                              /\ rows[i].id > rows[j].id

\* A user has two todos of equal priority on a date; the later one is first.
C2_Witness ==
    \E u \in UserIds, d \in Dates :
        /\ Len(GetTodosByDate(u, d)) = 2
        /\ GetTodosByDate(u, d)[1].priority = GetTodosByDate(u, d)[2].priority
        /\ GetTodosByDate(u, d)[1].id > GetTodosByDate(u, d)[2].id

(***************************************************************************)
(* SpecByPriority: user 1's todos of every priority on two dates, with and *)
(* without a due time, pending and completed; user 2's plain todos.        *)
(***************************************************************************)
ByPriorityAddArgs ==
    LET required == [user_id : {1}, date : {FmtDate(9), FmtDate(10)},
                     title : {"Buy milk"}, priority : Priorities]
    IN  required
        \cup {r @@ [due_time |-> Noon] : r \in required}
        \cup {[user_id |-> 1, date |-> FmtDate(9), title |-> "Buy milk",
               priority |-> "high", due_time |-> Midnight],
              [user_id |-> 2, date |-> FmtDate(9), title |-> "Buy milk"]}

NextByPriority ==
    \/ \E args \in ByPriorityAddArgs : AddTodo(args)
    \/ \E id \in TodoIds : MarkTodoAsDone(id)

SpecByPriority == Init /\ [][NextByPriority]_vars

\* Whether rows a, b may come in this order under priority rank, then date,
\* then due_time ascending, NULL due times on the side nullsLast says.
InPriorityOrder(a, b, nullsLast) ==
    \/ RankOf(a.priority) < RankOf(b.priority)
    \/ /\ a.priority = b.priority
       /\ \/ StrLt(a.date, b.date)
          \/ /\ a.date = b.date
             /\ \/ a.due_time = b.due_time
                \/ a.due_time # NULL /\ b.due_time # NULL /\ StrLt(a.due_time, b.due_time)
                \/ IF nullsLast THEN a.due_time # NULL /\ b.due_time = NULL
                                ELSE a.due_time = NULL /\ b.due_time # NULL

\* Every result of get_todos_by_priority(u) is exactly u's pending todos, in
\* the order InPriorityOrder gives.
ListPendingByPriority(nullsLast) ==
    \A u \in UserIds : \A rows \in GetTodosByPriority(u) :
        /\ {rows[i].id : i \in 1..Len(rows)}
              = {r.id : r \in {t \in todos : t.user_id = u /\ t.status = "pending"}}
        /\ Len(rows) = Cardinality({t \in todos : t.user_id = u /\ t.status = "pending"})
        /\ \A i, j \in 1..Len(rows) : i < j => InPriorityOrder(rows[i], rows[j], nullsLast)

\* C3, as claimed: get_todos_by_priority(u) returns u's pending todos by
\* priority rank, then date, then due_time ascending, a todo without due_time
\* after every todo of the same priority and date that has one.
C3_NullDueTimeLast == ListPendingByPriority(TRUE)

\* C3, amended: ... a todo without due_time before every todo of the same
\* priority and date that has one.
C3_NullDueTimeFirst == ListPendingByPriority(FALSE)

\* A user has two pending todos of one priority and date, one without due
\* time, and the query returns that one first.
C3_Witness ==
    \E u \in UserIds : \E rows \in GetTodosByPriority(u) :
        /\ Len(rows) = 2
        /\ rows[1].priority = rows[2].priority /\ rows[1].date = rows[2].date
        /\ rows[1].due_time = NULL /\ rows[2].due_time # NULL

(***************************************************************************)
(* The statistics, checked under SpecStats: todos dated today and earlier, *)
(* with and without a due time, while the clock runs.                      *)
(***************************************************************************)
StatsAddArgs ==
    LET required == [user_id : UserIds, date : Dates, title : {"Buy milk"}]
        due == {<<>>} \cup [due_time : {Midnight, Noon}]
    IN  {r @@ t : r \in required, t \in due}

NextStats ==
    \/ \E args \in StatsAddArgs : AddTodo(args)
    \/ \E id \in TodoIds : MarkTodoAsDone(id)
    \/ \E u \in UserIds : GetTodoStats(u)
    \/ Tick

SpecStats == Init /\ [][NextStats]_vars

\* The overdue predicate of the specification at one moment: pending, and
\* dated before that day, or dated that day with a due time before that time.
OverdueAt(r, moment) ==
    /\ r.status = "pending"
    /\ \/ StrLt(r.date, FmtDate(moment.day))
       \/ /\ r.date = FmtDate(moment.day)
          /\ r.due_time # NULL
          /\ StrLt(r.due_time, FmtTime(moment.sec))

\* The statistics of user u's todos at one moment.
StatsAt(u, moment) ==
    [completed |-> Cardinality({r \in todos : r.user_id = u /\ r.status = "completed"}),
     pending   |-> Cardinality({r \in todos : r.user_id = u /\ r.status = "pending"}),
     overdue   |-> Cardinality({r \in todos : r.user_id = u /\ OverdueAt(r, moment)})]

\* C4: get_todo_stats(u) returns the numbers of u's completed and pending
\* todos and, as overdue, the number of u's pending todos that are overdue at
\* the single moment of the call: a moment the clock showed during it.
C4_StatsAtOneMoment ==
    last.op = "get_todo_stats" =>
        \E moment \in {last.t0, last.t1} : last.ret = StatsAt(last.user_id, moment)

(***************************************************************************)
(* The users table: password records, registration and authentication.     *)
(* A password is the sequence of its UTF-8 bytes.                          *)
(***************************************************************************)
\* os.urandom(32)
SaltLen == 32

\* stored_password[:32] and stored_password[32:]
SaltPrefixLen == 32

\* "return None"
None == 0

\* The salts os.urandom can return, of which the model draws MaxSalt.
Salts == {[i \in 1..SaltLen |-> b] : b \in 1..MaxSalt}

\* The key HMAC works with: the password's bytes padded with zero bytes to
\* the hash's block size, so that trailing zero bytes make no difference.
\* (A password longer than the block is hashed first; the model has none.)
RECURSIVE HmacKey(_)
HmacKey(bytes) ==
    IF bytes # <<>> /\ bytes[Len(bytes)] = 0
    THEN HmacKey(SubSeq(bytes, 1, Len(bytes) - 1))
    ELSE bytes

\* hashlib.pbkdf2_hmac('sha256', password, salt, 100000): a digest that is
\* taken to differ whenever the HMAC key or the salt does.
Pbkdf2(password, salt) == HmacKey(password) \o <<-1>> \o salt

\* hash_password with the salt it drew: salt + key.
HashPassword(password, salt) == salt \o Pbkdf2(password, salt)

VerifyPassword(stored_password, provided_password) ==
    LET salt == SubSeq(stored_password, 1, SaltPrefixLen)
        stored_key == SubSeq(stored_password, SaltPrefixLen + 1, Len(stored_password))
    IN  Pbkdf2(provided_password, salt) = stored_key

\* What authenticate_user returns on the users table tbl.  The column holds
\* the bytes register_user stored, never a str.
Authenticate(tbl, username, password) ==
    IF \E u \in tbl : u.username = username /\ VerifyPassword(u.password_hash, password)
    THEN (CHOOSE u \in tbl : u.username = username).id
    ELSE None

\* register_user: the INSERT fails on the UNIQUE username (IntegrityError).
RegisterUser(username, password) ==
    \E salt \in Salts :
        IF \E u \in users : u.username = username
        THEN /\ last' = [op |-> "register_user", username |-> username,
                         password |-> password, ret |-> FALSE]
             /\ UNCHANGED <<credVars, todoVars, clock, appVars>>
        ELSE /\ users' = users \cup {[id |-> userSeq + 1, username |-> username,
                                      password_hash |-> HashPassword(password, salt)]}
             /\ userSeq' = userSeq + 1
             /\ registered' = registered \cup {[username |-> username, password |-> password,
                                                id |-> userSeq + 1]}
             /\ last' = [op |-> "register_user", username |-> username,
                         password |-> password, ret |-> TRUE]
             /\ UNCHANGED <<todoVars, clock, appVars>>

AuthenticateUser(username, password) ==
    /\ last' = [op |-> "authenticate_user", username |-> username, password |-> password,
                ret |-> Authenticate(users, username, password)]
    /\ UNCHANGED <<credVars, todoVars, clock, appVars>>

Usernames == {"alice", "bob"}

\* "pw1", "pw2" and "pw1" followed by a NUL character.
Passwords == {<<112, 119, 49>>, <<112, 119, 50>>, <<112, 119, 49, 0>>}

NextCred ==
    \/ \E n \in Usernames, p \in Passwords : RegisterUser(n, p)
    \/ \E n \in Usernames, p \in Passwords : AuthenticateUser(n, p)

SpecCred == Init /\ [][NextCred]_vars

\* C5: authenticate_user(username, password) returns the id of user username
\* if and only if that username was registered with exactly that password,
\* and None otherwise.
C5_AuthenticateIffRegistered ==
    last.op = "authenticate_user" =>
        IF \E g \in registered : g.username = last.username /\ g.password = last.password
        THEN \E g \in registered : g.username = last.username /\ last.ret = g.id
        ELSE last.ret = None

\* C6: register_user for a username that is already registered returns False
\* and leaves the users table as it was, so that the first registration's
\* password still authenticates to the original id and the second call's
\* password, when it differs, authenticates to None.
C6_SecondRegistrationRejected ==
    [][(IsCall /\ last'.op = "register_user" /\ \E u \in users : u.username = last'.username)
          => /\ last'.ret = FALSE
             /\ UNCHANGED <<users, userSeq>>
             /\ \A g \in registered : g.username = last'.username =>
                   /\ Authenticate(users', g.username, g.password) = g.id
                   /\ last'.password # g.password
                         => Authenticate(users', g.username, last'.password) = None]_vars

(***************************************************************************)
(* SpecOverdue: todos dated today and earlier are completed and set back   *)
(* to pending while the clock runs and the statistics are read.            *)
(***************************************************************************)
OverdueAddArgs ==
    {[user_id |-> 1, date |-> FmtDate(9), title |-> "Buy milk"],
     [user_id |-> 1, date |-> FmtDate(10), title |-> "Buy milk"],
     [user_id |-> 2, date |-> FmtDate(9), title |-> "Buy milk"]}

NextOverdue ==
    \/ \E args \in OverdueAddArgs : AddTodo(args)
    \/ \E id \in TodoIds : MarkTodoAsDone(id)
    \/ \E id \in TodoIds : MarkTodoAsPending(id)
    \/ \E u \in UserIds : GetTodoStats(u)
    \/ Tick

SpecOverdue == Init /\ [][NextOverdue]_vars

\* C11: get_todo_stats(u) counts as overdue every pending todo of u dated
\* before the current date, the date the call starts on, and counts no
\* completed todo as overdue or pending; a todo is completed from a successful
\* mark_todo_as_done(id) until a later mark_todo_as_pending(id).
C11_OverdueWhilePending ==
    [][/\ (IsCall /\ last'.op = "get_todo_stats") =>
            LET mine == {r \in todos : r.user_id = last'.user_id}
                today == FmtDate(last'.t0.day)
            IN  /\ last'.ret.overdue >=
                      Cardinality({r \in mine : r.status = "pending" /\ StrLt(r.date, today)})
                /\ last'.ret.overdue <=
                      Cardinality({r \in mine : r.status = "pending" /\ ~StrLt(today, r.date)})
                /\ last'.ret.pending = Cardinality({r \in mine : r.status = "pending"})
       /\ (IsCall /\ last'.op = "mark_todo_as_done" /\ last'.ret) =>
            \A r \in todos' : r.id = last'.id => r.status = "completed"
       /\ \A r \in todos, n \in todos' :
            (n.id = r.id /\ r.status = "completed" /\ n.status # "completed")
                => (last'.op = "mark_todo_as_pending" /\ last'.id = r.id)]_vars

\* A user has two todos dated yesterday, one of them completed: the
\* statistics count one overdue, one pending and one completed.
C11_Witness ==
    /\ last.op = "get_todo_stats"
    /\ last.ret = [completed |-> 1, pending |-> 1, overdue |-> 1]
    /\ \E r \in todos : /\ r.user_id = last.user_id /\ r.status = "completed"
                        /\ StrLt(r.date, FmtDate(last.t0.day))
    /\ \E r \in todos : /\ r.user_id = last.user_id /\ r.status = "pending"
                        /\ StrLt(r.date, FmtDate(last.t0.day))

(***************************************************************************)
(* SpecPending: the five statements that write the todos table, on todos   *)
(* of user 1 on every date and of user 2.                                  *)
(***************************************************************************)
PendingAddArgs ==
    [user_id : {1}, date : Dates, title : {"Buy milk"}]
    \cup {[user_id |-> 2, date |-> FmtDate(9), title |-> "Buy milk"]}

NextPending ==
    \/ \E args \in PendingAddArgs : AddTodo(args)
    \/ \E id \in TodoIds, args \in UpdateArgs : UpdateTodo(id, args)
    \/ \E id \in TodoIds : DeleteTodo(id)
    \/ \E id \in TodoIds : MarkTodoAsDone(id)
    \/ \E id \in TodoIds : MarkTodoAsPending(id)

SpecPending == Init /\ [][NextPending]_vars

\* C12: after any sequence of writes, get_todos_by_priority(u) holds no todo
\* whose status is 'completed' and holds every pending todo of u, whatever
\* its date.
C12_PendingOnly ==
    \A u \in UserIds : \A rows \in GetTodosByPriority(u) :
        /\ \A i \in 1..Len(rows) : rows[i].status # "completed"
        /\ \A r \in todos : (r.user_id = u /\ r.status = "pending")
                                => \E i \in 1..Len(rows) : rows[i].id = r.id

\* A user has a completed todo on one date and a pending one on another; the
\* query returns the pending one alone.
C12_Witness ==
    \E u \in UserIds : \E done, open \in todos :
        /\ done.user_id = u /\ done.status = "completed"
        /\ open.user_id = u /\ open.status = "pending" /\ open.date # done.date
        /\ \A rows \in GetTodosByPriority(u) : Len(rows) = 1 /\ rows[1].id = open.id

(***************************************************************************)
(* SpecTitle: add_todo with an empty and a non-empty title.                *)
(***************************************************************************)
TitleAddArgs == [user_id : UserIds, date : Dates, title : {"", "Buy milk"}]

NextTitle ==
    \/ \E args \in TitleAddArgs : AddTodo(args)
    \/ \E id \in TodoIds : DeleteTodo(id)

SpecTitle == Init /\ [][NextTitle]_vars

\* C13: add_todo called with an empty title fails: it returns no identifier
\* and leaves the todos table unchanged, so no stored todo has an empty title.
C13_EmptyTitleRejected ==
    [][/\ (IsCall /\ last'.op = "add_todo" /\ last'.args.title = "")
            => (last'.ret \notin TodoIds /\ UNCHANGED todoVars)
       /\ \A r \in todos' : r.title # ""]_vars

(***************************************************************************)
(* Database.__init__ on a database file that already holds a todos table   *)
(* with some or all of the newer columns.  A row is a record of the        *)
(* columns its table has.                                                  *)
(***************************************************************************)
\* The DEFAULT the schema declares for a newer column.
ColumnDefault(c) ==
    CASE c = "status" -> "pending" [] c = "priority" -> "medium" [] OTHER -> NULL

\* try: SELECT status, due_time, completed_date, priority / except: the four
\* ALTER TABLE ... ADD COLUMN in turn, the first one that finds its column
\* present raising the OperationalError that ends the block.
AfterFirstProbe(cols) ==
    IF \A i \in 1..Len(NewerColumns) : NewerColumns[i] \in cols
    THEN cols
    ELSE cols \cup {NewerColumns[i] : i \in {k \in 1..Len(NewerColumns) :
                                               \A j \in 1..k : NewerColumns[j] \notin cols}}

\* try: SELECT priority / except: ALTER TABLE todos ADD COLUMN priority
AfterSecondProbe(cols) == IF "priority" \in cols THEN cols ELSE cols \cup {"priority"}

\* ADD COLUMN gives every existing row the column's default.
WithColumns(r, cols) == [c \in cols |-> IF c \in DOMAIN r THEN r[c] ELSE ColumnDefault(c)]

\* CREATE TABLE IF NOT EXISTS leaves an existing table alone; then the probes.
DatabaseInit ==
    /\ schema' = AfterSecondProbe(AfterFirstProbe(schema))
    /\ todos' = {WithColumns(r, schema') : r \in todos}
    /\ last' = [op |-> "__init__", columns |-> schema]
    /\ UNCHANGED <<credVars, todoSeq, clock, view>>

\* The rows an older version of the program may have left, before their
\* restriction to the columns the table has.
LegacyRows ==
    {[id |-> 1, user_id |-> 1, date |-> FmtDate(9), title |-> "Buy milk", description |-> "",
      status |-> "pending", due_time |-> t, completed_date |-> NULL, priority |-> p] :
        t \in {NULL, Noon}, p \in {"high", "medium"}}
    \cup {[id |-> 2, user_id |-> 2, date |-> FmtDate(10), title |-> "Call bank",
           description |-> "at noon", status |-> "completed", due_time |-> NULL,
           completed_date |-> FmtStamp(FirstInstant), priority |-> "low"]}

\* A database file with a todos table of the base columns and any of the newer
\* ones, holding at most one row per id.
InitLegacy ==
    /\ users = {}
    /\ userSeq = 0
    /\ registered = {}
    /\ schema \in {BaseColumns \cup {NewerColumns[i] : i \in S} : S \in SUBSET (1..Len(NewerColumns))}
    /\ \E rows \in SUBSET LegacyRows :
          /\ \A a, b \in rows : a.id = b.id => a = b
          /\ todos = {WithColumns(r, schema) : r \in rows}
    /\ todoSeq = MaxTodos
    /\ clock = FirstInstant
    /\ last = [op |-> "init"]
    /\ view = LoginView

NextSchema == DatabaseInit

SpecSchema == InitLegacy /\ [][NextSchema]_vars

\* C14: for a todos table with any subset of the newer columns, after
\* Database.__init__ the table has all four, every row is still there with
\* its old values, and a second initialization changes nothing.
C14_InitAddsMissingColumns ==
    [][(IsCall /\ last'.op = "__init__")
          => /\ schema' = AllColumns
             /\ Cardinality(todos') = Cardinality(todos)
             /\ \A r \in todos : \E n \in todos' : \A c \in DOMAIN r : n[c] = r[c]
             /\ last.op = "__init__" => UNCHANGED <<schema, todos>>]_vars

(***************************************************************************)
(* The search.  Database.search_todos is declared with self as its only    *)
(* parameter; TodoApp.search_todos calls it with a user id and a keyword.  *)
(***************************************************************************)
\* db.search_todos(user_id, keyword): the call does not match the signature
\* "def search_todos(self)", so Python raises TypeError before the body runs.
SearchTodos(user_id, keyword) ==
    /\ last' = [op |-> "search_todos", user_id |-> user_id, keyword |-> keyword,
                raises |-> "TypeError"]
    /\ UNCHANGED <<credVars, todoVars, clock, appVars>>

SearchAddArgs ==
    [user_id : UserIds, date : {FmtDate(9)}, title : {"Buy milk", "Call bank"}]
    \cup {[user_id |-> 1, date |-> FmtDate(9), title |-> "Call bank", description |-> "Milk"]}

Keywords == {"MILK", "an"}

NextSearch ==
    \/ \E args \in SearchAddArgs : AddTodo(args)
    \/ \E id \in TodoIds : DeleteTodo(id)
    \/ \E u \in UserIds, k \in Keywords : SearchTodos(u, k)

SpecSearch == Init /\ [][NextSearch]_vars

\* The characters of the titles, descriptions and keywords above.
Chars(text) ==
    CASE text = "Buy milk"  -> <<66, 117, 121, 32, 109, 105, 108, 107>>
      [] text = "Call bank" -> <<67, 97, 108, 108, 32, 98, 97, 110, 107>>
      [] text = "Milk"      -> <<77, 105, 108, 107>>
      [] text = "MILK"      -> <<77, 73, 76, 75>>
      [] text = "an"        -> <<97, 110>>
      [] OTHER              -> <<>>

Lower(text) == [i \in 1..Len(text) |-> IF text[i] \in 65..90 THEN text[i] + 32 ELSE text[i]]

\* keyword is a substring of text, letter case aside.
ContainsIgnoreCase(text, keyword) ==
    \E i \in 1..(Len(text) - Len(keyword) + 1) :
        SubSeq(Lower(text), i, i + Len(keyword) - 1) = Lower(keyword)

\* C15: db.search_todos(user_id, keyword), as the view calls it, returns
\* exactly the todos of that user whose title or description contains keyword
\* as a case-insensitive substring, and no todo of another user.
C15_SearchBySubstring ==
    last.op = "search_todos" =>
        /\ "ret" \in DOMAIN last
        /\ {last.ret[i].id : i \in 1..Len(last.ret)}
              = {r.id : r \in {t \in todos :
                    /\ t.user_id = last.user_id
                    /\ \/ ContainsIgnoreCase(Chars(t.title), Chars(last.keyword))
                       \/ ContainsIgnoreCase(Chars(t.description), Chars(last.keyword))}}

(***************************************************************************)
(* SpecGone: todos are added, written, deleted and counted.                *)
(***************************************************************************)
GoneAddArgs ==
    {[user_id |-> 1, date |-> FmtDate(9), title |-> "Buy milk"],
     [user_id |-> 2, date |-> FmtDate(9), title |-> "Buy milk", priority |-> "high"]}

NextGone ==
    \/ \E args \in GoneAddArgs : AddTodo(args)
    \/ \E id \in TodoIds, args \in UpdateArgs : UpdateTodo(id, args)
    \/ \E id \in TodoIds : DeleteTodo(id)
    \/ \E id \in TodoIds : MarkTodoAsDone(id)
    \/ \E id \in TodoIds : MarkTodoAsPending(id)
    \/ \E u \in UserIds : GetTodoStats(u)

SpecGone == Init /\ [][NextGone]_vars

\* The ids add_todo has given out (up to seq) that no row of rows has.
Gone(rows, seq) == {id \in 1..seq : \A r \in rows : r.id # id}

\* C16: after delete_todo(id) returns True the todo stays gone: every later
\* get_todos_by_date and get_todos_by_priority result is without it,
\* get_todo_stats counts stored todos only, and update_todo, delete_todo,
\* mark_todo_as_done and mark_todo_as_pending on the id return False.
C16_DeletedForGood ==
    [][/\ (IsCall /\ last'.op = "delete_todo" /\ last'.ret)
            => last'.id \in Gone(todos', todoSeq')
       /\ Gone(todos, todoSeq) \subseteq Gone(todos', todoSeq')
       /\ \A id \in Gone(todos', todoSeq'), u \in UserIds :
            /\ \A d \in Dates : \A i \in 1..Len(GetTodosByDate(u, d)') :
                  GetTodosByDate(u, d)'[i].id # id
            /\ \A rows \in GetTodosByPriority(u)' : \A i \in 1..Len(rows) : rows[i].id # id
       /\ (IsCall /\ last'.op \in IdOps /\ last'.id \in Gone(todos, todoSeq))
            => last'.ret = FALSE
       /\ (IsCall /\ last'.op = "get_todo_stats")
            => /\ last'.ret.completed + last'.ret.pending
                     = Cardinality({r \in todos : r.user_id = last'.user_id
                                                  /\ r.id \notin Gone(todos, todoSeq)})
               /\ last'.ret.overdue <= last'.ret.pending]_vars

\* After todo 1 was deleted, with todo 2 of user 1 stored, an update of todo 1
\* failed.
C16_Witness ==
    /\ last.op = "update_todo" /\ last.id = 1 /\ last.ret = FALSE
    /\ Gone(todos, todoSeq) = {1}
    /\ \E r \in todos : r.id = 2 /\ r.user_id = 1

(***************************************************************************)
(* SpecRestamp: todos are completed, and completed again, as time passes.  *)
(***************************************************************************)
RestampAddArgs ==
    {[user_id |-> 1, date |-> FmtDate(9), title |-> "Buy milk"],
     [user_id |-> 2, date |-> FmtDate(10), title |-> "Call bank",
      description |-> "at noon", due_time |-> Noon, priority |-> "high"]}

NextRestamp ==
    \/ \E args \in RestampAddArgs : AddTodo(args)
    \/ \E id \in TodoIds : MarkTodoAsDone(id)
    \/ \E id \in TodoIds : MarkTodoAsPending(id)
    \/ Tick

SpecRestamp == Init /\ [][NextRestamp]_vars

\* C18: mark_todo_as_done on a todo that is already completed returns True,
\* leaves its status 'completed', sets completed_date to the time of this
\* call, and changes no other field and no other todo.
C18_DoneAgainRestamps ==
    [][(/\ IsCall /\ last'.op = "mark_todo_as_done"
        /\ \E r \in Matched(last'.id) : r.status = "completed")
          => /\ last'.ret = TRUE
             /\ {r \in todos' : r.id = last'.id}
                   = {[r EXCEPT !.completed_date = FmtStamp(clock)] : r \in Matched(last'.id)}
             /\ \A r \in todos' : r.id = last'.id => r.status = "completed"
             /\ {r \in todos' : r.id # last'.id} = {r \in todos : r.id # last'.id}]_vars

\* A todo completed at an earlier time was completed again and carries the
\* later stamp.
C18_Witness ==
    /\ last.op = "mark_todo_as_done" /\ last.ret
    /\ \E r \in last.old : /\ r.status = "completed"
                           /\ StrLt(r.completed_date, FmtStamp(clock))
                           /\ r.due_time = Noon
    /\ \E r \in todos : /\ r.id = last.id /\ r.status = "completed"
                        /\ r.completed_date = FmtStamp(clock) /\ r.due_time = Noon

(***************************************************************************)
(* The TodoApp frame: the calendar, the form, the tree of todos and the    *)
(* handlers of its buttons and events.  A row of the tree is the record of *)
(* its values.  The tags of the rows and the statistics labels, which no   *)
(* handler reads back, are left out.  view.edited is history: the id of    *)
(* the row the last edit_selected loaded into the form.                    *)
(***************************************************************************)
\* "23:59"
LastMinute == <<50, 51, 58, 53, 57>>

\* values=(todo_id, date, title, description, status, due_time or "", priority)
TreeValues(row) == [row EXCEPT !.due_time = IF @ = NULL THEN <<>> ELSE @]

\* The tree is emptied and filled with rows.  The selection goes with the
\* items; whether Tk reports that by <<TreeviewSelect>>, which makes
\* item_selected forget the selected id, depends on the Tk version.
Reloaded(v, rows) ==
    {[v EXCEPT !.tree = [i \in DOMAIN rows |-> TreeValues(rows[i])],
               !.selection = 0,
               !.selected_todo_id = s] :
        s \in IF v.selection # 0 THEN {v.selected_todo_id, None} ELSE {v.selected_todo_id}}

\* clear_form
ClearedForm(v) ==
    [v EXCEPT !.title_entry = "", !.description_text = "", !.due_time_entry = <<>>,
              !.priority_var = "medium", !.selected_todo_id = None,
              !.save_btn = "Add Todo", !.selection = 0]

\* TodoApp.__init__ for user_id: today's todos are loaded, the form is empty.
NewTodoApp(user_id) ==
    [frame            |-> "TodoApp",
     user_id          |-> user_id,
     calendar         |-> FmtDate(clock.day),
     current_date     |-> FmtDate(clock.day),
     tree             |-> [i \in DOMAIN GetTodosByDate(user_id, FmtDate(clock.day))
                              |-> TreeValues(GetTodosByDate(user_id, FmtDate(clock.day))[i])],
     selection        |-> 0,
     selected_todo_id |-> None,
     title_entry      |-> "",
     description_text |-> "",
     due_time_entry   |-> <<>>,
     priority_var     |-> "medium",
     save_btn         |-> "Add Todo",
     edited           |-> None]

\* Application.show_main_app
ShowMainApp(user_id) ==
    /\ view.frame = "LoginFrame"
    /\ view' = NewTodoApp(user_id)
    /\ UNCHANGED <<credVars, todoVars, clock, last, schema>>

\* LoginFrame.login with a username and a password typed in: the main frame
\* is shown when authenticate_user returns an id.
Login(username, password) ==
    /\ view.frame = "LoginFrame"
    /\ last' = [op |-> "login", username |-> username,
                ret |-> Authenticate(users, username, password)]
    /\ view' = IF last'.ret # None THEN NewTodoApp(last'.ret) ELSE view
    /\ UNCHANGED <<credVars, todoVars, clock, schema>>

\* logout, the user confirming: Application.show_login destroys the frame.
Logout ==
    /\ view.frame = "TodoApp"
    /\ view' = LoginView
    /\ UNCHANGED <<credVars, todoVars, clock, last, schema>>

\* reset_search
ResetSearch ==
    /\ view.frame = "TodoApp"
    /\ view' \in Reloaded(view, GetTodosByDate(view.user_id, view.current_date))
    /\ UNCHANGED <<credVars, todoVars, clock, last, schema>>

\* date_selected: the user picks a date in the calendar.
DateSelected(date) ==
    /\ view.frame = "TodoApp"
    /\ view' \in Reloaded([view EXCEPT !.calendar = date, !.current_date = date],
                          GetTodosByDate(view.user_id, date))
    /\ UNCHANGED <<credVars, todoVars, clock, last, schema>>

\* show_all_by_priority
ShowAllByPriority ==
    /\ view.frame = "TodoApp"
    /\ \E rows \in GetTodosByPriority(view.user_id) :
          view' \in Reloaded(view, IF rows = <<>>
                                   THEN GetTodosByDate(view.user_id, view.current_date)
                                   ELSE rows)
    /\ UNCHANGED <<credVars, todoVars, clock, last, schema>>

\* item_selected: the user selects row i of the tree, or with i = 0 takes the
\* selection away.
ItemSelected(i) ==
    /\ view.frame = "TodoApp"
    /\ i \in 0..Len(view.tree)
    /\ i # view.selection
    /\ view' = [view EXCEPT !.selection = i,
                            !.selected_todo_id = IF i = 0 THEN None ELSE view.tree[i].id]
    /\ UNCHANGED <<credVars, todoVars, clock, last, schema>>

\* edit_selected
EditSelected ==
    /\ view.frame = "TodoApp"
    /\ view.selected_todo_id # None
    /\ view.selection # 0
    /\ LET values == view.tree[view.selection]
       IN  view' = [view EXCEPT !.title_entry = values.title,
                                !.description_text = values.description,
                                !.due_time_entry = values.due_time,
                                !.priority_var = values.priority,
                                !.save_btn = "Update Todo",
                                !.edited = values.id]
    /\ UNCHANGED <<credVars, todoVars, clock, last, schema>>

\* The user types a title and a due time and picks a priority.
FillForm(title, due_time, priority) ==
    /\ view.frame = "TodoApp"
    /\ view' = [view EXCEPT !.title_entry = title, !.due_time_entry = due_time,
                            !.priority_var = priority]
    /\ UNCHANGED <<credVars, todoVars, clock, last, schema>>

\* The Clear Form button.
ClearForm ==
    /\ view.frame = "TodoApp"
    /\ view' = ClearedForm(view)
    /\ UNCHANGED <<credVars, todoVars, clock, last, schema>>

\* save_todo.  date.today() is read at clock, datetime.now() at c2, and the
\* statement runs at c3.
SaveTodo ==
    /\ view.frame = "TodoApp"
    /\ view.title_entry # ""
    /\ \E c2 \in SoonAfter(clock) : \E c3 \in SoonAfter(c2) :
        LET due_time == view.due_time_entry
            selected_date == view.calendar
            current_date == FmtDate(clock.day)
            current_time == FmtTime(c2.sec)
            adding == view.save_btn = "Add Todo"
            args == [title |-> view.title_entry, description |-> view.description_text,
                     priority |-> view.priority_var]
                    @@ (IF due_time # <<>> THEN [due_time |-> due_time] ELSE <<>>)
        IN  /\ ~(adding /\ StrLt(selected_date, current_date))
            /\ ~(adding /\ selected_date = current_date /\ due_time # <<>>
                        /\ StrLt(due_time, current_time))
            /\ clock' = c3
            /\ IF ~adding
               THEN IF view.selected_todo_id # None /\ Matched(view.selected_todo_id) # {}
                    THEN /\ todos' = (todos \ Matched(view.selected_todo_id))
                                        \cup {UpdatedRow(r, args) : r \in Matched(view.selected_todo_id)}
                         /\ todoSeq' = todoSeq
                         /\ view' \in Reloaded(ClearedForm(view),
                                               SelectByDate(todos', view.user_id, view.current_date))
                         /\ last' = [op |-> "save_todo", mode |-> "Update Todo",
                                     id |-> view.selected_todo_id, args |-> args,
                                     at |-> c3, ret |-> TRUE]
                    ELSE /\ last' = [op |-> "save_todo", mode |-> "Update Todo",
                                     id |-> view.selected_todo_id, args |-> args,
                                     at |-> c3, ret |-> FALSE]
                         /\ UNCHANGED <<todoVars, view>>
               ELSE /\ todoSeq < MaxTodos
                    /\ todos' = todos \cup
                          {InsertedRow(AutoIncrement(todoSeq, todos),
                                       args @@ [user_id |-> view.user_id, date |-> selected_date])}
                    /\ todoSeq' = AutoIncrement(todoSeq, todos)
                    /\ view' \in Reloaded(ClearedForm(view),
                                          SelectByDate(todos', view.user_id, view.current_date))
                    /\ last' = [op |-> "save_todo", mode |-> "Add Todo",
                                id |-> AutoIncrement(todoSeq, todos), args |-> args,
                                at |-> c3, ret |-> TRUE]
    /\ UNCHANGED <<credVars, schema>>

\* mark_as_done
MarkAsDone ==
    /\ view.frame = "TodoApp"
    /\ view.selected_todo_id # None
    /\ todos' = (todos \ Matched(view.selected_todo_id))
                   \cup {DoneRow(r, FmtStamp(clock)) : r \in Matched(view.selected_todo_id)}
    /\ last' = [op |-> "mark_as_done", id |-> view.selected_todo_id,
                ret |-> RowcountPositive(Cardinality(Matched(view.selected_todo_id)))]
    /\ IF last'.ret
       THEN view' \in Reloaded(view, SelectByDate(todos', view.user_id, view.current_date))
       ELSE view' = view
    /\ UNCHANGED <<credVars, todoSeq, clock, schema>>

\* mark_as_pending
MarkAsPending ==
    /\ view.frame = "TodoApp"
    /\ view.selected_todo_id # None
    /\ todos' = (todos \ Matched(view.selected_todo_id))
                   \cup {PendingRow(r) : r \in Matched(view.selected_todo_id)}
    /\ last' = [op |-> "mark_as_pending", id |-> view.selected_todo_id,
                ret |-> RowcountPositive(Cardinality(Matched(view.selected_todo_id)))]
    /\ IF last'.ret
       THEN view' \in Reloaded(view, SelectByDate(todos', view.user_id, view.current_date))
       ELSE view' = view
    /\ UNCHANGED <<credVars, todoSeq, clock, schema>>

\* delete_selected, the user confirming.
DeleteSelected ==
    /\ view.frame = "TodoApp"
    /\ view.selected_todo_id # None
    /\ todos' = todos \ Matched(view.selected_todo_id)
    /\ last' = [op |-> "delete_selected", id |-> view.selected_todo_id,
                ret |-> RowcountPositive(Cardinality(Matched(view.selected_todo_id)))]
    /\ IF last'.ret
       THEN view' \in Reloaded([view EXCEPT !.selected_todo_id = None],
                               SelectByDate(todos', view.user_id, view.current_date))
       ELSE view' = view
    /\ UNCHANGED <<credVars, todoSeq, clock, schema>>

(***************************************************************************)
(* SpecView: one user's session, with every handler of the frame.          *)
(***************************************************************************)
NextView ==
    \/ ShowMainApp(1)
    \/ \E d \in Dates : DateSelected(d)
    \/ ShowAllByPriority
    \/ \E i \in 0..MaxTodos : ItemSelected(i)
    \/ EditSelected
    \/ \E due \in {<<>>, LastMinute} : FillForm("Buy milk", due, "high")
    \/ ClearForm
    \/ SaveTodo
    \/ MarkAsDone
    \/ MarkAsPending
    \/ DeleteSelected

SpecView == Init /\ [][NextView]_vars

\* C19: when save_todo runs in update mode, the todo it updates is the one
\* the most recent edit_selected loaded into the form.
C19_SaveUpdatesEditedTodo ==
    [][(IsCall /\ last'.op = "save_todo" /\ last'.mode = "Update Todo" /\ last'.ret)
          => last'.id = view.edited]_vars

(***************************************************************************)
(* SpecSave: todos are typed in and saved, for today and later dates,      *)
(* while the clock runs.                                                   *)
(***************************************************************************)
NextSave ==
    \/ \E u \in UserIds : ShowMainApp(u)
    \/ \E d \in Dates : DateSelected(d)
    \/ \E due \in {<<>>, Midnight, LastMinute}, p \in {"medium", "high"} :
          FillForm("Buy milk", due, p)
    \/ SaveTodo
    \/ Tick

SpecSave == Init /\ [][NextSave]_vars

\* C20: a todo stored by save_todo in add mode is not overdue at the moment
\* it is stored: its date is not before that day, nor is its due time, on
\* that day, before that time.
C20_AddedTodoNotOverdue ==
    (last.op = "save_todo" /\ last.mode = "Add Todo")
        => \A r \in todos : r.id = last.id => ~OverdueAt(r, last.at)

(***************************************************************************)
(* SpecSession: two registered users log in and out of one application and *)
(* work on their todos.                                                    *)
(***************************************************************************)
\* "secret" and "hunter"
AlicePassword == <<115, 101, 99, 114, 101, 116>>

BobPassword == <<104, 117, 110, 116, 101, 114>>

\* A database in which alice and bob have registered in an earlier run.
InitRegistered ==
    /\ users = {[id |-> 1, username |-> "alice",
                 password_hash |-> HashPassword(AlicePassword, [i \in 1..SaltLen |-> 1])],
                [id |-> 2, username |-> "bob",
                 password_hash |-> HashPassword(BobPassword, [i \in 1..SaltLen |-> 1])]}
    /\ userSeq = 2
    /\ registered = {[username |-> "alice", password |-> AlicePassword, id |-> 1],
                     [username |-> "bob", password |-> BobPassword, id |-> 2]}
    /\ todos = {}
    /\ todoSeq = 0
    /\ clock = FirstInstant
    /\ last = [op |-> "init"]
    /\ schema = AllColumns
    /\ view = LoginView

NextSession ==
    \/ \E c \in {<<"alice", AlicePassword>>, <<"bob", BobPassword>>, <<"bob", AlicePassword>>} :
          Login(c[1], c[2])
    \/ Logout
    \/ \E d \in {FmtDate(9), FmtDate(10)} : DateSelected(d)
    \/ ShowAllByPriority
    \/ ResetSearch
    \/ \E i \in 0..MaxTodos : ItemSelected(i)
    \/ EditSelected
    \/ FillForm("Buy milk", <<>>, "high")
    \/ SaveTodo
    \/ MarkAsDone
    \/ MarkAsPending
    \/ DeleteSelected

SpecSession == InitRegistered /\ [][NextSession]_vars

\* C21: through every sequence of view actions, each row the tree shows is a
\* stored todo of the user of the session, and each step that changes the
\* todos table adds, changes or removes todos of that user only; the todo a
\* successful save, mark or delete names is a todo of that user.
C21_SessionOwnsItsTodos ==
    [][/\ view'.frame = "TodoApp" =>
            \A i \in 1..Len(view'.tree) :
                \E r \in todos' : r.id = view'.tree[i].id /\ r.user_id = view'.user_id
       /\ todos' # todos =>
            /\ view.frame = "TodoApp"
            /\ \A r \in (todos \ todos') \cup (todos' \ todos) : r.user_id = view.user_id
       /\ (/\ IsCall
           /\ last'.op \in {"save_todo", "mark_as_done", "mark_as_pending", "delete_selected"}
           /\ last'.ret) =>
            \A r \in todos \cup todos' : r.id = last'.id => r.user_id = view.user_id]_vars

\* With a todo of bob stored, alice has marked a todo of hers as done and
\* sees it in the tree.
C21_Witness ==
    /\ view.frame = "TodoApp" /\ view.user_id = 1
    /\ last.op = "mark_as_done" /\ last.ret
    /\ \E r \in todos : r.user_id = 2
    /\ \E i \in 1..Len(view.tree) : view.tree[i].id = last.id /\ view.tree[i].status = "completed"

(***************************************************************************)
(* SpecDueTime: todos with and without a due time are added, updated with  *)
(* every form of the due_time argument, marked and deleted.                *)
(***************************************************************************)
DueTimeAddArgs ==
    {[user_id |-> 1, date |-> FmtDate(9), title |-> "Buy milk"],
     [user_id |-> 1, date |-> FmtDate(9), title |-> "Buy milk", due_time |-> Noon]}

\* update_todo(id, title, description) with due_time left out, given as None,
\* given as the empty string and given as a time.
DueTimeUpdateArgs ==
    LET required == [title : {"Call bank"}, description : {"at noon"}]
        due == {<<>>} \cup [due_time : {NULL, <<>>, Midnight}]
    IN  {r @@ t : r \in required, t \in due}

NextDueTime ==
    \/ \E args \in DueTimeAddArgs : AddTodo(args)
    \/ \E id \in TodoIds, args \in DueTimeUpdateArgs : UpdateTodo(id, args)
    \/ \E id \in TodoIds : DeleteTodo(id)
    \/ \E id \in TodoIds : MarkTodoAsDone(id)
    \/ \E id \in TodoIds : MarkTodoAsPending(id)

SpecDueTime == Init /\ [][NextDueTime]_vars

\* C22: a stored todo whose due_time is not NULL has a due_time that is not
\* NULL after every store operation that leaves it stored, and update_todo
\* with due_time None leaves the due_time of the todo as it was.
C22_DueTimeStays ==
    [][/\ \A r \in todos : \A n \in todos' :
             (n.id = r.id /\ r.due_time # NULL) => n.due_time # NULL
       /\ (IsCall /\ last'.op = "update_todo" /\ Arg(last'.args, "due_time", NULL) = NULL) =>
             \A r \in Matched(last'.id) : \E n \in todos' :
                 n.id = r.id /\ n.due_time = r.due_time]_vars

\* A todo due at noon was updated with due_time None: it has the new title
\* and is still due at noon.
C22_Witness ==
    /\ last.op = "update_todo" /\ last.ret
    /\ "due_time" \in DOMAIN last.args /\ last.args.due_time = NULL
    /\ \E r \in todos : /\ r.id = last.id /\ r.title = last.args.title
                        /\ r.due_time = Noon

====
